---- MODULE Spec2Model ----
(***************************************************************************)
(* Model of app.py: the tool packs, the CommandCenter and its swarm, the   *)
(* four agent classes and their execute methods, and the Streamlit script  *)
(* main() that is rerun on every UI interaction of a session.              *)
(*                                                                         *)
(* Strings built by f-strings are modelled as sequences of their pieces    *)
(* (literal parts and interpolated values), so "contains" is membership.   *)
(* A call either returns a value or raises; both are modelled as records.  *)
(***************************************************************************)
EXTENDS Integers, Sequences, FiniteSets, TLC

VARIABLES
    cc,             \* a CommandCenter driven directly (swarm, tool_pack)
    preset_arg,     \* argument of the most recent direct setup_swarm call
    call,           \* the most recent direct call and its outcome
    session_state,  \* st.session_state of the UI session (a dict)
    widgets,        \* values of the selectbox and the four text inputs
    run,            \* what the most recent run of main() did
    created         \* number of agent objects constructed so far

vars == <<cc, preset_arg, call, session_state, widgets, run, created>>

(***************************************************************************)
(* Bounds and input sets                                                   *)
(***************************************************************************)
MaxSetups == 3
MaxReruns == 6

UnknownPresets == {"none", "FULL"}
AltTask == "other task"
Responses == {"def f(): pass"}
Errors == {"API key not valid"}

(***************************************************************************)
(* Python values                                                           *)
(***************************************************************************)
None == [kind |-> "None"]
Dict(f) == [kind |-> "dict", items |-> f]
Truthy(v) == v.kind = "dict" /\ DOMAIN v.items /= {}

Returned(v) == [kind |-> "returned", value |-> v]
Raised(e) == [kind |-> "raised", exc |-> e]

Range(s) == {s[i] : i \in 1..Len(s)}

\* list[i] with a 0-based index: IndexError when i is out of range
Subscript(list, i) ==
    IF i < Len(list) THEN Returned(list[i + 1]) ELSE Raised("IndexError")

(***************************************************************************)
(* Tool packs                                                              *)
(***************************************************************************)
Tool(n) == [name |-> n]
FileReadTool == Tool("FileReadTool")
APITestTool == Tool("APITestTool")
WebsiteSearchTool == Tool("WebsiteSearchTool")
CSVAnalysisTool == Tool("CSVAnalysisTool")
PDFExtractionTool == Tool("PDFExtractionTool")

TOOL_PACKS ==
    [basic |-> <<FileReadTool, CSVAnalysisTool>>,
     web   |-> <<WebsiteSearchTool, APITestTool>>,
     data  |-> <<PDFExtractionTool, CSVAnalysisTool>>,
     full  |-> <<FileReadTool, WebsiteSearchTool, APITestTool,
                 CSVAnalysisTool, PDFExtractionTool>>]

\* list(TOOL_PACKS.keys()): the options of the selectbox, in dict order
TOOL_PACK_KEYS == <<"basic", "web", "data", "full">>

PresetNames == DOMAIN TOOL_PACKS \cup UnknownPresets

\* TOOL_PACKS.get(tool_pack_name, [])
TOOL_PACKS_get_default_basic(tool_pack_name) ==
    IF tool_pack_name \in DOMAIN TOOL_PACKS
    THEN TOOL_PACKS[tool_pack_name] ELSE TOOL_PACKS["basic"]

TOOL_PACKS_get(tool_pack_name) ==
    IF tool_pack_name \in DOMAIN TOOL_PACKS
    THEN TOOL_PACKS[tool_pack_name] ELSE <<>>

(***************************************************************************)
(* Agents                                                                  *)
(***************************************************************************)
Agent(id, cls, name, tools) ==
    [id |-> id, cls |-> cls, name |-> name, tools |-> tools]

DataAnalysisAgent_execute(self, task) ==
    IF self.tools /= <<>>
    THEN LET t == Subscript(self.tools, 0) IN
         IF t.kind = "raised" THEN t
         ELSE Returned(<<self.name, " used ", t.value.name,
                         " to analyze: ", task>>)
    ELSE Returned(<<self.name, " completed analysis: ", task>>)

WebScrapingAgent_execute(self, task) ==
    IF self.tools /= <<>>
    THEN LET t == Subscript(self.tools, 1) IN
         IF t.kind = "raised" THEN t
         ELSE Returned(<<self.name, " used ", t.value.name,
                         " to scrape: ", task>>)
    ELSE Returned(<<self.name, " scraped: ", task>>)

APIIntegrationAgent_execute(self, task) ==
    IF self.tools /= <<>>
    THEN LET t == Subscript(self.tools, 2) IN
         IF t.kind = "raised" THEN t
         ELSE Returned(<<self.name, " used ", t.value.name,
                         " to integrate: ", task>>)
    ELSE Returned(<<self.name, " integrated: ", task>>)

\* What the external model call does in one execute: the call returns a
\* response whose text can be read, or the call raises, or reading
\* response.text raises.
GeminiOutcomes ==
    {[kind |-> "ok", payload |-> r] : r \in Responses}
    \cup {[kind |-> k, payload |-> e] :
            k \in {"call_raises", "text_raises"}, e \in Errors}

\* The response.text read placed outside the try block
CodeGenerationAgent_execute_text_unguarded(self, task, outcome) ==
    LET prompt == <<"Generate Python code for: ", task>> IN
    IF outcome.kind = "call_raises"
    THEN [kind |-> "returned", sent |-> <<prompt>>,
          value |-> <<self.name, " failed to generate code: ",
                      outcome.payload>>]
    ELSE IF outcome.kind = "text_raises"
    THEN [kind |-> "raised", sent |-> <<prompt>>, exc |-> outcome.payload]
    ELSE [kind |-> "returned", sent |-> <<prompt>>,
          value |-> <<self.name, " generated code: (python fence) ",
                      outcome.payload, " (fence)">>]

\* sent: the prompts passed to gemini_model.generate_content by this execute
CodeGenerationAgent_execute(self, task, outcome) ==
    LET prompt == <<"Generate Python code for: ", task>> IN
    IF outcome.kind \in {"call_raises", "text_raises"}
    THEN [kind |-> "returned", sent |-> <<prompt>>,
          value |-> <<self.name, " failed to generate code: ",
                      outcome.payload>>]
    ELSE [kind |-> "returned", sent |-> <<prompt>>,
          value |-> <<self.name, " generated code: (python fence) ",
                      outcome.payload, " (fence)">>]

\* agent.execute(task): dispatch on the agent's class
Agent_execute(agent, task, outcome) ==
    CASE agent.cls = "DataAnalysisAgent" ->
            DataAnalysisAgent_execute(agent, task)
      [] agent.cls = "WebScrapingAgent" ->
            WebScrapingAgent_execute(agent, task)
      [] agent.cls = "APIIntegrationAgent" ->
            APIIntegrationAgent_execute(agent, task)
      [] agent.cls = "CodeGenerationAgent" ->
            CodeGenerationAgent_execute(agent, task, outcome)

(***************************************************************************)
(* CommandCenter                                                           *)
(***************************************************************************)
\* CommandCenter(): __init__
CommandCenter == [name |-> "CommandCenter", swarm |-> <<>>, tool_pack |-> <<>>]

\* The swarm as it was before the code generation agent was added
setup_swarm_without_codegen(self, tool_pack_name, n) ==
    [self EXCEPT !.swarm =
        <<Agent(n + 1, "DataAnalysisAgent", "DataAgent",
                TOOL_PACKS_get(tool_pack_name)),
          Agent(n + 2, "WebScrapingAgent", "ScraperAgent",
                TOOL_PACKS_get(tool_pack_name)),
          Agent(n + 3, "APIIntegrationAgent", "APIAgent",
                TOOL_PACKS_get(tool_pack_name))>>]

\* The new agents appended to the swarm instead of replacing it
setup_swarm_append(self, tool_pack_name, n) ==
    [self EXCEPT !.swarm = @ \o
        <<Agent(n + 1, "DataAnalysisAgent", "DataAgent",
                TOOL_PACKS_get(tool_pack_name)),
          Agent(n + 2, "WebScrapingAgent", "ScraperAgent",
                TOOL_PACKS_get(tool_pack_name)),
          Agent(n + 3, "APIIntegrationAgent", "APIAgent",
                TOOL_PACKS_get(tool_pack_name)),
          Agent(n + 4, "CodeGenerationAgent", "CodeGenAgent", <<>>)>>]

\* setup_swarm: n agent objects exist already, the four new ones get the
\* identities n+1 .. n+4.  CodeGenerationAgent is constructed without tools.
setup_swarm(self, tool_pack_name, n) ==
    [self EXCEPT !.swarm =
        <<Agent(n + 1, "DataAnalysisAgent", "DataAgent",
                TOOL_PACKS_get(tool_pack_name)),
          Agent(n + 2, "WebScrapingAgent", "ScraperAgent",
                TOOL_PACKS_get(tool_pack_name)),
          Agent(n + 3, "APIIntegrationAgent", "APIAgent",
                TOOL_PACKS_get(tool_pack_name)),
          Agent(n + 4, "CodeGenerationAgent", "CodeGenAgent", <<>>)>>]

AgentNames(swarm) == {a.name : a \in Range(swarm)}

AgentByName(swarm, k) == CHOOSE a \in Range(swarm) : a.name = k

\* run_workflow: execute is invoked for each key of the task map on the
\* agent of that name; an error raised by an execute propagates, otherwise
\* the result map has the keys of the task map.
run_workflow(self, tasks, outcome) ==
    LET r == [k \in DOMAIN tasks |->
                Agent_execute(AgentByName(self.swarm, k), tasks[k], outcome)]
        failed == {k \in DOMAIN tasks : r[k].kind = "raised"}
    IN  IF failed /= {}
        THEN Raised(r[CHOOSE k \in failed : TRUE].exc)
        ELSE Returned(Dict([k \in DOMAIN tasks |-> r[k].value]))

(***************************************************************************)
(* Initial state: the CommandCenter is constructed, the browser session    *)
(* has not run main() yet.                                                 *)
(***************************************************************************)
EmptyDict == [k \in {} |-> None]

DefaultTasks ==
    [data_task   |-> "Analyze sales data",
     scrape_task |-> "Scrape competitor prices",
     api_task    |-> "Fetch weather data",
     code_task   |-> "Generate a Python function to calculate factorial"]

TaskFields == DOMAIN DefaultTasks

NoRun == [kind |-> "none"]
NoCall == [op |-> "none"]

Init ==
    /\ cc = CommandCenter
    /\ preset_arg = None
    /\ call = NoCall
    /\ session_state = EmptyDict
    /\ widgets = [tool_pack |-> TOOL_PACK_KEYS[1], tasks |-> DefaultTasks]
    /\ run = NoRun
    /\ created = 0

(***************************************************************************)
(* Direct use of the CommandCenter and of the agents                       *)
(***************************************************************************)
ExecTasks == {DefaultTasks.data_task, AltTask}

UIVarsUnchanged == UNCHANGED <<session_state, widgets, run>>

SetupSwarm(p) ==
    /\ created < 4 * MaxSetups
    /\ cc' = setup_swarm(cc, p, created)
    /\ created' = created + 4
    /\ preset_arg' = p
    /\ call' = [op |-> "setup_swarm", arg |-> p]
    /\ UIVarsUnchanged

Execute(i, task, outcome) ==
    /\ i \in 1..Len(cc.swarm)
    /\ call' = [op |-> "execute", agent |-> cc.swarm[i], task |-> task,
                outcome |-> outcome,
                result |-> Agent_execute(cc.swarm[i], task, outcome)]
    /\ UNCHANGED <<cc, preset_arg, created>>
    /\ UIVarsUnchanged

SwarmNames == {"DataAgent", "ScraperAgent", "APIAgent", "CodeGenAgent"}

\* The task maps: any set of agent names as keys
TaskMaps(names) ==
    UNION {[ks -> ExecTasks] : ks \in SUBSET names}

RunWorkflow(tasks, outcome) ==
    /\ DOMAIN tasks \subseteq AgentNames(cc.swarm)
    /\ call' = [op |-> "run_workflow", tasks |-> tasks, outcome |-> outcome,
                result |-> run_workflow(cc, tasks, outcome)]
    /\ UNCHANGED <<cc, preset_arg, created>>
    /\ UIVarsUnchanged

NextAgents ==
    \/ \E p \in PresetNames : SetupSwarm(p)
    \/ \E i \in 1..4, task \in ExecTasks, o \in GeminiOutcomes :
          Execute(i, task, o)
    \/ \E tasks \in TaskMaps(SwarmNames), o \in GeminiOutcomes :
          RunWorkflow(tasks, o)

SpecAgents == Init /\ [][NextAgents]_vars

(***************************************************************************)
(* The Streamlit script.  Every UI interaction reruns main() from the top  *)
(* with the current widget values; st.session_state survives the reruns.   *)
(***************************************************************************)
Crew == [kind |-> "Crew"]

\* Session initialisation run on every rerun, guard dropped
InitSessionState_unguarded(ss) ==
    [crew |-> Crew, command_center |-> CommandCenter, results |-> None]

\* if 'crew' not in st.session_state: ...
InitSessionState(ss) ==
    IF "crew" \notin DOMAIN ss
    THEN [crew |-> Crew, command_center |-> CommandCenter, results |-> None]
    ELSE ss

\* The swarm kept when its agents already hold the selected pack
Sidebar_cached(ss, tool_pack, n) ==
    IF /\ ss.command_center.swarm /= <<>>
       /\ ss.command_center.swarm[1].tools = TOOL_PACKS_get(tool_pack)
    THEN ss
    ELSE [ss EXCEPT !.command_center = setup_swarm(@, tool_pack, n)]

\* The results cleared when the swarm is rebuilt for another pack
Sidebar_clears_results(ss, tool_pack, n) ==
    IF /\ ss.command_center.swarm /= <<>>
       /\ ss.command_center.swarm[1].tools /= TOOL_PACKS_get(tool_pack)
    THEN [ss EXCEPT !.command_center = setup_swarm(@, tool_pack, n),
                    !.results = None]
    ELSE [ss EXCEPT !.command_center = setup_swarm(@, tool_pack, n)]

\* with st.sidebar: the selectbox value goes to setup_swarm
Sidebar(ss, tool_pack, n) ==
    [ss EXCEPT !.command_center = setup_swarm(@, tool_pack, n)]

\* tasks = {...}: the task map built from the four text inputs
UITaskMap(t) ==
    [DataAgent    |-> t.data_task,
     ScraperAgent |-> t.scrape_task,
     APIAgent     |-> t.api_task,
     CodeGenAgent |-> t.code_task]

UIKeys == DOMAIN UITaskMap(DefaultTasks)

NotCalled == [kind |-> "not called"]

\* The results of the agents that did return stored although the run raised
TaskExecution_stores_partial(ss, t, pressed, outcome) ==
    IF ~pressed
    THEN [session_state |-> ss, workflow |-> NotCalled, success |-> FALSE]
    ELSE LET r == run_workflow(ss.command_center, UITaskMap(t), outcome) IN
         IF r.kind = "raised"
         THEN [session_state |->
                 [ss EXCEPT !.results =
                    Dict([k \in {"DataAgent"} |->
                       Agent_execute(AgentByName(ss.command_center.swarm, k),
                                     UITaskMap(t)[k], outcome).value])],
               workflow |-> r, success |-> FALSE]
         ELSE [session_state |-> [ss EXCEPT !.results = r.value],
               workflow |-> r, success |-> TRUE]

\* if st.button("Execute Workflow"): ... ; success: st.success was reached
TaskExecution(ss, t, pressed, outcome) ==
    IF ~pressed
    THEN [session_state |-> ss, workflow |-> NotCalled, success |-> FALSE]
    ELSE LET r == run_workflow(ss.command_center, UITaskMap(t), outcome) IN
         IF r.kind = "raised"
         THEN [session_state |-> ss, workflow |-> r, success |-> FALSE]
         ELSE [session_state |-> [ss EXCEPT !.results = r.value],
               workflow |-> r, success |-> TRUE]

NoResultsYet ==
    "No results yet. Run the workflow in the 'Task Execution' tab."

\* with tab3: one report per item of the results, or the message
ResultsTab(ss) ==
    IF Truthy(ss.results)
    THEN [shown |-> "reports", reports |-> ss.results.items]
    ELSE [shown |-> NoResultsYet]

NotRendered == [shown |-> "not rendered"]

\* One run of main(): an uncaught error ends the script, so the Results
\* tab is rendered only when the task execution block did not raise.
main(ss, w, pressed, outcome, n) ==
    LET s1 == InitSessionState(ss)
        s2 == Sidebar(s1, w.tool_pack, n)
        te == TaskExecution(s2, w.tasks, pressed, outcome)
    IN  [session_state |-> te.session_state,
         run |-> [kind |-> "run", pressed |-> pressed,
                  tool_pack |-> w.tool_pack,
                  workflow |-> te.workflow, success |-> te.success,
                  tab3 |-> IF te.workflow.kind = "raised" THEN NotRendered
                           ELSE ResultsTab(te.session_state)]]

Rerun(w, pressed, outcome) ==
    /\ created < 4 * MaxReruns
    /\ LET m == main(session_state, w, pressed, outcome, created) IN
          /\ session_state' = m.session_state
          /\ run' = m.run
    /\ widgets' = w
    /\ created' = created + 4
    /\ UNCHANGED <<cc, preset_arg, call>>

AnyOutcome == CHOOSE o \in GeminiOutcomes : TRUE

\* The page is opened: first run of the script in the session
OpenPage ==
    /\ session_state = EmptyDict
    /\ Rerun(widgets, FALSE, AnyOutcome)

\* Another option is picked in the selectbox
SelectToolPack(p) ==
    /\ session_state /= EmptyDict
    /\ p /= widgets.tool_pack
    /\ Rerun([widgets EXCEPT !.tool_pack = p], FALSE, AnyOutcome)

\* One of the text inputs is edited
EditTask(f, t) ==
    /\ session_state /= EmptyDict
    /\ t /= widgets.tasks[f]
    /\ Rerun([widgets EXCEPT !.tasks[f] = t], FALSE, AnyOutcome)

\* The Execute Workflow button is pressed
ExecuteWorkflow(outcome) ==
    /\ session_state /= EmptyDict
    /\ Rerun(widgets, TRUE, outcome)

Next ==
    \/ OpenPage
    \/ \E i \in 1..Len(TOOL_PACK_KEYS) : SelectToolPack(TOOL_PACK_KEYS[i])
    \/ \E f \in TaskFields : \E t \in {DefaultTasks[f], AltTask} : EditTask(f, t)
    \/ \E o \in GeminiOutcomes : ExecuteWorkflow(o)

Spec == Init /\ [][Next]_vars

(***************************************************************************)
(* Properties of the agents and of the CommandCenter (SpecAgents)          *)
(***************************************************************************)
NonCodeGen == {"DataAnalysisAgent", "WebScrapingAgent", "APIIntegrationAgent"}

\* The index of the tool each agent class names, and its two phrases
FixedIndex(cls) ==
    CASE cls = "DataAnalysisAgent" -> 0
      [] cls = "WebScrapingAgent" -> 1
      [] cls = "APIIntegrationAgent" -> 2

UsedPhrase(cls) ==
    CASE cls = "DataAnalysisAgent" -> " to analyze: "
      [] cls = "WebScrapingAgent" -> " to scrape: "
      [] cls = "APIIntegrationAgent" -> " to integrate: "

ToollessPhrase(cls) ==
    CASE cls = "DataAnalysisAgent" -> " completed analysis: "
      [] cls = "WebScrapingAgent" -> " scraped: "
      [] cls = "APIIntegrationAgent" -> " integrated: "

ExecutedNonCodeGen == call.op = "execute" /\ call.agent.cls \in NonCodeGen
ExecutedCodeGen == call.op = "execute" /\ call.agent.cls = "CodeGenerationAgent"

\* C1: with a preset of the UI (basic, web, data, full), execute on
\* DataAgent, ScraperAgent and APIAgent returns and never raises: the fixed
\* index the agent reads is within the tool list of the preset.
C1_ExecuteNeverFails ==
    (ExecutedNonCodeGen /\ preset_arg \in DOMAIN TOOL_PACKS) =>
        /\ FixedIndex(call.agent.cls) < Len(call.agent.tools)
        /\ call.result.kind = "returned"

\* C2: execute of a non code generation agent gives
\* '<name> used <handle at the fixed index> to <verb>: <task>' when the agent
\* has tools and '<name> <verb phrase>: <task>' when it has none; with
\* preset basic DataAgent names FileReadTool.
C2_ExecuteFormat ==
    ExecutedNonCodeGen =>
        LET a == call.agent IN
        /\ IF a.tools /= <<>>
           THEN /\ FixedIndex(a.cls) < Len(a.tools)
                /\ call.result =
                     Returned(<<a.name, " used ",
                                a.tools[FixedIndex(a.cls) + 1].name,
                                UsedPhrase(a.cls), call.task>>)
           ELSE call.result =
                     Returned(<<a.name, ToollessPhrase(a.cls), call.task>>)
        /\ (preset_arg = "basic" /\ a.cls = "DataAnalysisAgent") =>
              call.result = Returned(<<"DataAgent", " used ", "FileReadTool",
                                       " to analyze: ", call.task>>)

\* C3: after setup_swarm with a preset name that is not a key of TOOL_PACKS
\* every agent of the swarm has an empty tool list, and execute on a non
\* code generation agent of that swarm returns the tool-less string.
C3_UnknownPresetToolless ==
    (cc.swarm /= <<>> /\ preset_arg \notin DOMAIN TOOL_PACKS) =>
        /\ \A a \in Range(cc.swarm) : a.tools = <<>>
        /\ ExecutedNonCodeGen =>
              call.result = Returned(<<call.agent.name,
                                       ToollessPhrase(call.agent.cls),
                                       call.task>>)

C3_Witness ==
    /\ call.op = "execute"
    /\ call.agent.cls = "APIIntegrationAgent"
    /\ preset_arg \in UnknownPresets
    /\ call.result.kind = "returned"

\* C4: execute of the code generation agent never raises and makes exactly
\* one external call; when the call or the read of its response text fails
\* the returned string contains the agent name and the error text, and when
\* it succeeds the returned string contains the response text.
C4_CodeGenNeverRaises ==
    ExecutedCodeGen =>
        /\ call.result.kind = "returned"
        /\ Len(call.result.sent) = 1
        /\ call.outcome.kind \in {"call_raises", "text_raises"} =>
              /\ call.agent.name \in Range(call.result.value)
              /\ call.outcome.payload \in Range(call.result.value)
              /\ " failed to generate code: " \in Range(call.result.value)
        /\ call.outcome.kind = "ok" =>
              call.outcome.payload \in Range(call.result.value)

C4_Witness ==
    /\ ExecutedCodeGen
    /\ call.outcome.kind = "text_raises"
    /\ call.outcome.payload \in Range(call.result.value)

SwarmNameList == [i \in 1..Len(cc.swarm) |-> cc.swarm[i].name]

FixedNameList == <<"DataAgent", "ScraperAgent", "APIAgent", "CodeGenAgent">>

\* C6 as stated: after any setup_swarm calls the swarm is the fixed list of
\* four agents and each agent holds the tools of the most recent preset.
C6_EveryAgentBound ==
    cc.swarm /= <<>> =>
        /\ SwarmNameList = FixedNameList
        /\ \A a \in Range(cc.swarm) : a.tools = TOOL_PACKS_get(preset_arg)

\* C6 amended: after any setup_swarm calls the swarm is the fixed list of
\* four agents with pairwise distinct names, never accumulated; DataAgent,
\* ScraperAgent and APIAgent hold the tools of the most recent preset and
\* CodeGenAgent holds no tools.
C6_SwarmFixedList ==
    /\ (cc.swarm = <<>>) <=> (created = 0)
    /\ cc.swarm /= <<>> =>
        /\ SwarmNameList = FixedNameList
        /\ Cardinality(AgentNames(cc.swarm)) = 4
        /\ \A i \in 1..3 : cc.swarm[i].tools = TOOL_PACKS_get(preset_arg)
        /\ cc.swarm[4].tools = <<>>
        /\ cc.swarm[4].cls = "CodeGenerationAgent"

C6_Witness ==
    /\ created > 4
    /\ call.op = "setup_swarm"
    /\ preset_arg = "full"
    /\ Len(cc.swarm) = 4
    /\ cc.swarm[1].id > 4

(***************************************************************************)
(* Properties of the UI session (Spec)                                     *)
(***************************************************************************)
Started == session_state /= EmptyDict
Results == session_state.results
Swarm == session_state.command_center.swarm

SameButIdentity(a, b) ==
    a.cls = b.cls /\ a.name = b.name /\ a.tools = b.tools

C9_RaiseKeepsResults ==
    /\ [][run'.workflow.kind = "raised" =>
            /\ session_state'.results = Results
            /\ ~run'.success]_vars
    /\ []((run.kind = "run" /\ run.success) =>
            /\ run.workflow.kind = "returned"
            /\ Results = run.workflow.value)

C9_Witness ==
    /\ Started
    /\ run.workflow.kind = "raised"
    /\ Results.kind = "dict"

\* C10: a run in which the selected pack changed leaves the stored results
\* unchanged, and the results change only in a run whose Execute Workflow
\* completed.
C10_PackChangeKeepsResults ==
    [][Started =>
          /\ widgets'.tool_pack /= widgets.tool_pack =>
                session_state'.results = Results
          /\ session_state'.results /= Results =>
                (run'.pressed /\ run'.workflow.kind = "returned")]_vars

\* The stored ScraperAgent result names a handle that the ScraperAgent of
\* the current swarm does not hold at its index
C10_Witness ==
    /\ Started
    /\ run.tool_pack /= "full"
    /\ Results.kind = "dict"
    /\ Results.items["ScraperAgent"][3] /= Swarm[2].tools[2].name

====
